---- MODULE Spec2Model ----
(***************************************************************************)
(* A model of keras.layers.RandomCrop                                      *)
(* (keras/src/layers/preprocessing/image_preprocessing/random_crop.py).    *)
(*                                                                         *)
(* The layer instances, their seed generators and the result of the last   *)
(* operation are the state; every public method of the layer is one        *)
(* action.  Tensors are records of a dtype, a shape and a function from    *)
(* index tuples to values, so that a crop is checked pixel by pixel.       *)
(***************************************************************************)
EXTENDS Integers, Sequences, FiniteSets, TLC

\* ------------------------------------------------------------------ bounds

\* Target sizes (height, width) range over 1..MaxTarget.
MaxTarget == 2
\* Seeds range over 0..MaxSeed.
MaxSeed == 1
\* A seed generator hands out at most MaxDraws values.
MaxDraws == 4
\* Box coordinates range over 0..MaxCoord.
MaxCoord == 3

\* Input heights and widths range over 0..MaxDim: one more than the largest
\* target, so that the random branch has at least two offsets to choose from.
MaxDim == MaxTarget + 1
\* A uniform sample is one of UnitSteps equally spaced points of [0, 1).
UnitSteps == MaxDim

\* ------------------------------------------------------- values and helpers

\* Python's None where an integer may stand (a seed, a dimension of a shape).
None == -1
\* Python's None where a data format may stand.
NoFormat == "None"

Seeds == 0..MaxSeed
Targets == 1..MaxTarget
Dims == 0..MaxDim
Formats == {"channels_first", "channels_last"}

Min(a, b) == IF a <= b THEN a ELSE b
Max(a, b) == IF a >= b THEN a ELSE b

\* int(float(a) / b) for b > 0: the quotient rounded towards zero.
IntOfQuotient(a, b) == IF a >= 0 THEN a \div b ELSE -((-a) \div b)

\* shape[axis] with a negative axis, as Python indexes a sequence (1-based here).
AtAxis(shape, axis) == shape[Len(shape) + 1 + axis]

\* ------------------------------------------------------------ framework

\* backend.standardize_data_format: None stands for the global setting.
standardize_data_format(data_format, global_format) ==
  IF data_format = NoFormat THEN global_format ELSE data_format

\* SeedGenerator(seed): a stream position (seed, counter); a None seed is
\* replaced by a freshly made one.
SeedGenerator(seed, fresh_seed) ==
  [seed |-> IF seed # None THEN seed ELSE fresh_seed, counter |-> 0]

\* The pseudo-random function: the sample the stream (seed, counter) holds, as a
\* numerator over UnitSteps.  It is a fixed function, chosen once (prng).
UnitSample(p, seed, counter) == (seed + p.b * counter + p.c) % UnitSteps

\* backend.random.uniform((), 0, maxval, seed): the sample scaled to [0, maxval),
\* a rational number.
random_uniform(maxval, unit) == [num |-> unit * maxval, den |-> UnitSteps]

\* backend.cast(x, "int32") of a non-negative float: the fraction is dropped.
cast_int32(x) == x.num \div x.den

\* ------------------------------------------------------------ construction

\* RandomCrop.__init__ with the generator made without the seed argument.
RandomCrop_UnseededGenerator(height, width, seed, data_format, default_seed, fresh_seed, global_format) ==
  LET fmt == standardize_data_format(data_format, global_format) IN
  [built |-> TRUE,
   height |-> height,
   width |-> width,
   seed |-> IF seed # None THEN seed ELSE default_seed,
   generator |-> SeedGenerator(None, fresh_seed),
   data_format |-> fmt,
   height_axis |-> IF fmt = "channels_first" THEN -2 ELSE -3,
   width_axis |-> IF fmt = "channels_first" THEN -1 ELSE -2,
   compute_dtype |-> "float32"]

\* RandomCrop.__init__
RandomCrop(height, width, seed, data_format, default_seed, fresh_seed, global_format) ==
  LET fmt == standardize_data_format(data_format, global_format) IN
  [built |-> TRUE,
   height |-> height,
   width |-> width,
   seed |-> IF seed # None THEN seed ELSE default_seed,
   generator |-> SeedGenerator(seed, fresh_seed),
   data_format |-> fmt,
   height_axis |-> IF fmt = "channels_first" THEN -2 ELSE -3,
   width_axis |-> IF fmt = "channels_first" THEN -1 ELSE -2,
   compute_dtype |-> "float32"]

NoLayer == [built |-> FALSE]

\* ------------------------------------------------------------------ state

VARIABLES
  layers,             \* the layer instances: 1 is constructed, 2 is rebuilt from 1's config
  image_data_format,  \* the framework's global data format setting
  prng,               \* the pseudo-random function of the backend
  ret                 \* the last operation, its arguments and what it returned

vars == <<layers, image_data_format, prng, ret>>

Ids == {1, 2}
NoCall == [op |-> "none"]

\* ---------------------------------------------------------------- planning

\* The shapes get_random_transformation is given: batched, with a known or an
\* unknown batch size, or unbatched; any dimension may be unknown.
DimsOrNone == Dims \cup {None}

ShapeOf(fmt, rank, b, h, w, c) ==
  IF fmt = "channels_first"
    THEN (IF rank = 4 THEN <<b, c, h, w>> ELSE <<c, h, w>>)
    ELSE (IF rank = 4 THEN <<b, h, w, c>> ELSE <<h, w, c>>)

PlanData(fmt) ==
  { [kind |-> "dict", images |-> ShapeOf(fmt, 4, None, h, w, 3)] : h \in DimsOrNone, w \in DimsOrNone }
  \cup
  { [kind |-> "tensor", shape |-> ShapeOf(fmt, 3, 1, h, w, 3)] : h \in DimsOrNone, w \in DimsOrNone }

\* The seed argument of get_random_transformation: None, or an integer seed.
SeedArgs == {None} \cup Seeds
\* The seed arguments the planning calls are given.
PlanSeeds == {None, MaxSeed}

\* The center branch with each crop size taken from its own dimension.
CenterCrop_OwnDimension(self, input_height, input_width) ==
  LET crop_height0 == IntOfQuotient(input_height * self.height, self.width)
      crop_height == Max(Min(input_height, crop_height0), 1)
      crop_width0 == IntOfQuotient(input_width * self.width, self.height)
      crop_width == Max(Min(input_width, crop_width0), 1)
  IN [kind |-> "ok",
      h_start |-> IntOfQuotient(input_height - crop_height, 2),
      w_start |-> IntOfQuotient(input_width - crop_width, 2)]

\* The center branch with the crop size not cut down to the input size.
CenterCrop_Unclamped(self, input_height, input_width) ==
  LET crop_height == Max(IntOfQuotient(input_width * self.height, self.width), 1)
      crop_width == Max(IntOfQuotient(input_height * self.width, self.height), 1)
  IN [kind |-> "ok",
      h_start |-> IntOfQuotient(input_height - crop_height, 2),
      w_start |-> IntOfQuotient(input_width - crop_width, 2)]

\* The crop the center branch plans: the offsets of the largest window of the
\* target's aspect ratio.
CenterCrop(self, input_height, input_width) ==
  LET crop_height0 == IntOfQuotient(input_width * self.height, self.width)
      crop_height == Max(Min(input_height, crop_height0), 1)
      crop_width0 == IntOfQuotient(input_height * self.width, self.height)
      crop_width == Max(Min(input_width, crop_width0), 1)
  IN [kind |-> "ok",
      h_start |-> IntOfQuotient(input_height - crop_height, 2),
      w_start |-> IntOfQuotient(input_width - crop_width, 2)]

\* The random branch with maxval one short: input size minus target size.
RandomCropOffsets_NoPlusOne(self, input_height, input_width, seed, p) ==
  LET g == self.generator
      u1 == IF seed = None THEN UnitSample(p, g.seed, g.counter) ELSE UnitSample(p, seed, 0)
      u2 == IF seed = None THEN UnitSample(p, g.seed, g.counter + 1) ELSE UnitSample(p, seed, 0)
  IN [kind |-> "ok",
      h_start |-> cast_int32(random_uniform(input_height - self.height, u1)),
      w_start |-> cast_int32(random_uniform(input_width - self.width, u2))]

\* The two draws of the random branch.  With seed = None they come from the
\* layer's generator, which moves on by one per draw; an integer seed is a
\* stateless stream, read at its start by both draws.
RandomCropOffsets(self, input_height, input_width, seed, p) ==
  LET g == self.generator
      u1 == IF seed = None THEN UnitSample(p, g.seed, g.counter) ELSE UnitSample(p, seed, 0)
      u2 == IF seed = None THEN UnitSample(p, g.seed, g.counter + 1) ELSE UnitSample(p, seed, 0)
  IN [kind |-> "ok",
      h_start |-> cast_int32(random_uniform(input_height - self.height + 1, u1)),
      w_start |-> cast_int32(random_uniform(input_width - self.width + 1, u2))]

\* get_random_transformation checking the height alone: an unknown width then
\* fails in the arithmetic that follows, with a TypeError.
get_random_transformation_HeightOnly(self, data, training, seed, p) ==
  LET input_shape == IF data.kind = "dict" THEN data.images ELSE data.shape
      input_height == AtAxis(input_shape, self.height_axis)
      input_width == AtAxis(input_shape, self.width_axis)
  IN IF input_height = None
       THEN [result |-> [kind |-> "ValueError", shape |-> input_shape], draws |-> 0]
     ELSE IF input_width = None
       THEN [result |-> [kind |-> "TypeError"], draws |-> 0]
     ELSE IF training /\ input_height > self.height /\ input_width > self.width
       THEN [result |-> RandomCropOffsets(self, input_height, input_width, seed, p),
             draws |-> IF seed = None THEN 2 ELSE 0]
     ELSE [result |-> CenterCrop(self, input_height, input_width), draws |-> 0]

\* RandomCrop.get_random_transformation: what it returns or raises, and how
\* many values it draws from the layer's generator.
get_random_transformation(self, data, training, seed, p) ==
  LET input_shape == IF data.kind = "dict" THEN data.images ELSE data.shape
      input_height == AtAxis(input_shape, self.height_axis)
      input_width == AtAxis(input_shape, self.width_axis)
  IN IF input_height = None \/ input_width = None
       THEN [result |-> [kind |-> "ValueError", shape |-> input_shape], draws |-> 0]
     ELSE IF training /\ input_height > self.height /\ input_width > self.width
       THEN [result |-> RandomCropOffsets(self, input_height, input_width, seed, p),
             draws |-> IF seed = None THEN 2 ELSE 0]
     ELSE [result |-> CenterCrop(self, input_height, input_width), draws |-> 0]

GetRandomTransformation(i, data, training, seed) ==
  /\ layers[i].built
  /\ LET self == layers[i]
         r == get_random_transformation(self, data, training, seed, prng)
     IN /\ self.generator.counter + r.draws <= MaxDraws
        /\ layers' = [layers EXCEPT ![i].generator.counter = @ + r.draws]
        /\ ret' = [op |-> "get_random_transformation", layer |-> i, data |-> data,
                   training |-> training, seed |-> seed,
                   drawn |-> self.generator.counter, result |-> r.result]
  /\ UNCHANGED <<image_data_format, prng>>

\* The caller takes the result of the last operation.
Consume ==
  /\ ret # NoCall
  /\ ret' = NoCall
  /\ UNCHANGED <<layers, image_data_format, prng>>

\* ----------------------------------------------------------------- tensors

\* The index tuples of a rank-4 tensor of the given shape, from 0 as in Python.
Indices(shape) ==
  (0..(shape[1] - 1)) \X (0..(shape[2] - 1)) \X (0..(shape[3] - 1)) \X (0..(shape[4] - 1))

\* backend.shape(x)
shape_of(x) == x.shape

\* The spacing of the floating point numbers of `bits` significant bits at v.
RECURSIVE Spacing(_, _)
Spacing(v, limit) == IF v < limit THEN 1 ELSE 2 * Spacing(v \div 2, limit)

\* A number converted to a dtype: the nearest number the dtype holds, ties to even.
CastValue(v, dtype) ==
  LET limit == IF dtype = "float32" THEN 2^24 ELSE IF dtype = "float16" THEN 2^11 ELSE 2^31
      u == Spacing(v, limit)
      q == v \div u
      r == v % u
  IN IF 2 * r < u \/ (2 * r = u /\ q % 2 = 0) THEN q * u ELSE (q + 1) * u

\* backend.cast(x, dtype)
cast(x, dtype) ==
  [kind |-> "tensor", dtype |-> dtype, shape |-> x.shape,
   data |-> [idx \in DOMAIN x.data |-> CastValue(x.data[idx], dtype)]]

\* backend.core.slice(inputs, start_indices, shape): the window of the given
\* shape that starts at start_indices; a window that leaves the input is an error.
slice(inputs, start_indices, shape) ==
  IF \E k \in 1..4 : start_indices[k] < 0 \/ start_indices[k] + shape[k] > inputs.shape[k]
    THEN [kind |-> "error", what |-> "slice out of bounds"]
    ELSE [kind |-> "tensor", dtype |-> inputs.dtype, shape |-> shape,
          data |-> [idx \in Indices(shape) |->
                      inputs.data[<<idx[1] + start_indices[1], idx[2] + start_indices[2],
                                    idx[3] + start_indices[3], idx[4] + start_indices[4]>>]]]

\* ---------------------------------------------------------------- applying

\* augment_images with the two offsets in each other's place.
augment_images_SwappedOffsets(self, images, transformation) ==
  LET inputs == cast(images, self.compute_dtype)
      h_start == transformation[1]
      w_start == transformation[2]
  IN IF self.data_format = "channels_last"
       THEN slice(inputs, <<0, w_start, h_start, 0>>,
                  <<shape_of(inputs)[1], self.height, self.width, shape_of(inputs)[4]>>)
       ELSE slice(inputs, <<0, 0, w_start, h_start>>,
                  <<shape_of(inputs)[1], shape_of(inputs)[2], self.height, self.width>>)

\* RandomCrop.augment_images
augment_images(self, images, transformation) ==
  LET inputs == cast(images, self.compute_dtype)
      h_start == transformation[1]
      w_start == transformation[2]
  IN IF self.data_format = "channels_last"
       THEN slice(inputs, <<0, h_start, w_start, 0>>,
                  <<shape_of(inputs)[1], self.height, self.width, shape_of(inputs)[4]>>)
       ELSE slice(inputs, <<0, 0, h_start, w_start>>,
                  <<shape_of(inputs)[1], shape_of(inputs)[2], self.height, self.width>>)

\* RandomCrop.augment_segmentation_masks
augment_segmentation_masks(self, segmentation_masks, transformation) ==
  augment_images(self, segmentation_masks, transformation)

\* RandomCrop.augment_labels
augment_labels(self, labels, transformation) == labels

\* The documented layout of a box: left-top-right-bottom.
Left(box) == box[1]
Top(box) == box[2]
Right(box) == box[3]
Bottom(box) == box[4]

\* backend.maximum(boxes[..., k] - offset, 0): one coordinate channel of every
\* box, moved and cut off at 0.  rows is a sequence of boxes.
MovedChannel(rows, k, offset) == [n \in 1..Len(rows) |-> Max(rows[n][k] - offset, 0)]

\* backend.stack([c1, c2, c3, c4], axis=-1) of four channels of equal length.
StackChannels(c1, c2, c3, c4) == [n \in 1..Len(c1) |-> <<c1[n], c2[n], c3[n], c4[n]>>]

\* The four channels of a sequence of boxes, each moved by its offset.
MovedRows(rows, h_start, w_start) ==
  StackChannels(MovedChannel(rows, 1, h_start), MovedChannel(rows, 2, w_start),
                MovedChannel(rows, 3, h_start), MovedChannel(rows, 4, w_start))

\* RandomCrop.augment_bounding_boxes.  boxes is [shape, rows]: rows is a sequence
\* of boxes when shape is (num_boxes, 4) and a sequence of such sequences when
\* it is (batch, num_boxes, 4).
augment_bounding_boxes(self, bounding_boxes, transformation) ==
  LET boxes == bounding_boxes.boxes
      h_start == transformation[1]
      w_start == transformation[2]
      moved == IF Len(shape_of(boxes)) = 3
                 THEN [b \in 1..Len(boxes.rows) |-> MovedRows(boxes.rows[b], h_start, w_start)]
                 ELSE MovedRows(boxes.rows, h_start, w_start)
  IN [boxes |-> [shape |-> boxes.shape, rows |-> moved],
      labels |-> bounding_boxes.labels]

\* RandomCrop.compute_output_shape
compute_output_shape(self, input_shape) ==
  [k \in 1..Len(input_shape) |->
     IF k = Len(input_shape) + 1 + self.width_axis THEN self.width
     ELSE IF k = Len(input_shape) + 1 + self.height_axis THEN self.height
     ELSE input_shape[k]]

\* get_config without the seed.
get_config_NoSeed(self) ==
  [name |-> "random_crop", height |-> self.height, width |-> self.width,
   seed |-> None, data_format |-> self.data_format]

\* RandomCrop.get_config: the base layer's entries and the four settings.
get_config(self) ==
  [name |-> "random_crop", height |-> self.height, width |-> self.width,
   seed |-> self.seed, data_format |-> self.data_format]

\* The layer called on a batch of images: one plan, applied to the images.
call(self, images, training, p) ==
  LET plan == get_random_transformation(self, [kind |-> "tensor", shape |-> shape_of(images)],
                                        training, None, p)
  IN [transformation |-> plan.result,
      draws |-> plan.draws,
      result |-> IF plan.result.kind = "ok"
                   THEN augment_images(self, images, <<plan.result.h_start, plan.result.w_start>>)
                   ELSE plan.result]

\* Layer.from_config: the config handed back to the constructor.
from_config(config, default_seed, fresh_seed, global_format) ==
  RandomCrop(config.height, config.width, config.seed, config.data_format,
             default_seed, fresh_seed, global_format)

\* ------------------------------------------------------------------ inputs

\* A pixel that tells its position: base plus its row-major index.
Pixel(base, shape, idx) ==
  (base + ((idx[1] * shape[2] + idx[2]) * shape[3] + idx[3]) * shape[4] + idx[4]) % 256

TensorOf(dtype, shape, base) ==
  [kind |-> "tensor", dtype |-> dtype, shape |-> shape,
   data |-> [idx \in Indices(shape) |-> Pixel(base, shape, idx)]]

\* Batches of one or two images of one or two channels, values in [0, 255].
Images(fmt) ==
  { TensorOf("uint8", ShapeOf(fmt, 4, b, h, w, c), base) :
      b \in {1, 2}, h \in 1..MaxDim, w \in 1..MaxDim, c \in {1, 2}, base \in {0, 250} }

\* Batches of one or two single-channel masks of class ids.
Masks(fmt) ==
  { TensorOf("int32", ShapeOf(fmt, 4, b, h, w, 1), 0) :
      b \in {1, 2}, h \in 1..MaxDim, w \in 1..MaxDim }

\* The transformations the apply operations are handed.
Offsets == 0..(MaxDim - 1)
Transformations == Offsets \X Offsets

Coords == 0..MaxCoord
BoxSamples ==
  { box \in Coords \X Coords \X Coords \X Coords :
      Left(box) <= Right(box) /\ Top(box) <= Bottom(box) }
RefBox == <<1, 0, MaxCoord, 2>>

\* Unbatched box sets of zero, one or two boxes, with a class id per box.
UnbatchedBoxes ==
  { [boxes |-> [shape |-> <<Len(rows), 4>>, rows |-> rows],
     labels |-> [n \in 1..Len(rows) |-> n]] :
      rows \in {<<>>} \cup { <<box>> : box \in BoxSamples }
                     \cup { <<box, RefBox>> : box \in BoxSamples } }

\* Batched box sets of one or two samples of one box each.
BatchedBoxes ==
  { [boxes |-> [shape |-> <<Len(rows), 1, 4>>, rows |-> rows],
     labels |-> [b \in 1..Len(rows) |-> <<10 * b>>]] :
      rows \in { << <<box>> >> : box \in BoxSamples }
               \cup { << <<RefBox>>, <<box>> >> : box \in BoxSamples } }

LabelSamples == { <<>>, <<1>>, <<2, 1>> }

\* ----------------------------------------------------------------- actions

AugmentImages(i, images, transformation) ==
  /\ layers[i].built
  /\ ret' = [op |-> "augment_images", layer |-> i, images |-> images,
             transformation |-> transformation,
             result |-> augment_images(layers[i], images, transformation)]
  /\ UNCHANGED <<layers, image_data_format, prng>>

AugmentSegmentationMasks(i, segmentation_masks, transformation) ==
  /\ layers[i].built
  /\ ret' = [op |-> "augment_segmentation_masks", layer |-> i, images |-> segmentation_masks,
             transformation |-> transformation,
             result |-> augment_segmentation_masks(layers[i], segmentation_masks, transformation)]
  /\ UNCHANGED <<layers, image_data_format, prng>>

AugmentLabels(i, labels, transformation) ==
  /\ layers[i].built
  /\ ret' = [op |-> "augment_labels", layer |-> i, labels |-> labels,
             transformation |-> transformation,
             result |-> augment_labels(layers[i], labels, transformation)]
  /\ UNCHANGED <<layers, image_data_format, prng>>

AugmentBoundingBoxes(i, bounding_boxes, transformation) ==
  /\ layers[i].built
  /\ ret' = [op |-> "augment_bounding_boxes", layer |-> i, bounding_boxes |-> bounding_boxes,
             transformation |-> transformation,
             result |-> augment_bounding_boxes(layers[i], bounding_boxes, transformation)]
  /\ UNCHANGED <<layers, image_data_format, prng>>

ComputeOutputShape(i, input_shape) ==
  /\ layers[i].built
  /\ ret' = [op |-> "compute_output_shape", layer |-> i, input_shape |-> input_shape,
             result |-> compute_output_shape(layers[i], input_shape)]
  /\ UNCHANGED <<layers, image_data_format, prng>>

Call(i, images, training) ==
  /\ layers[i].built
  /\ LET self == layers[i]
         r == call(self, images, training, prng)
     IN /\ self.generator.counter + r.draws <= MaxDraws
        /\ layers' = [layers EXCEPT ![i].generator.counter = @ + r.draws]
        /\ ret' = [op |-> "call", layer |-> i, images |-> images, training |-> training,
                   transformation |-> r.transformation, result |-> r.result]
  /\ UNCHANGED <<image_data_format, prng>>

GetConfig(i) ==
  /\ layers[i].built
  /\ ret' = [op |-> "get_config", layer |-> i, result |-> get_config(layers[i])]
  /\ UNCHANGED <<layers, image_data_format, prng>>

\* Layer 2 is built from the config the last operation returned.
FromConfig ==
  /\ ret.op = "get_config"
  /\ \E default_seed \in Seeds, fresh_seed \in Seeds :
       layers' = [layers EXCEPT ![2] = from_config(ret.result, default_seed, fresh_seed,
                                                   image_data_format)]
  /\ ret' = [op |-> "from_config", layer |-> 2, config |-> ret.result]
  /\ UNCHANGED <<image_data_format, prng>>

\* keras.config.set_image_data_format
SetImageDataFormat(data_format) ==
  /\ image_data_format' = data_format
  /\ UNCHANGED <<layers, prng, ret>>

\* ------------------------------------------------------------ specifications

\* The pseudo-random functions: a start c and a stride b along each stream, the
\* streams of different seeds shifted against each other.
PrngFamily == [b : 0..(UnitSteps - 1), c : 0..(UnitSteps - 1)]

\* After construction of layer 1, with a seed argument among seed_args.
InitWith(seed_args) ==
  /\ image_data_format \in Formats
  /\ prng \in PrngFamily
  /\ \E height \in Targets, width \in Targets, seed \in seed_args,
        data_format \in Formats \cup {NoFormat}, default_seed \in Seeds, fresh_seed \in Seeds :
       layers = [i \in Ids |-> IF i = 1
                   THEN RandomCrop(height, width, seed, data_format, default_seed,
                                   fresh_seed, image_data_format)
                   ELSE NoLayer]
  /\ ret = NoCall

\* After construction of layer 1, with any arguments.
Init == InitWith(SeedArgs)

\* Planning on one layer built with a seed, under the default global format.
InitPlan ==
  /\ InitWith(Seeds)
  /\ image_data_format = "channels_last"

NextPlan ==
  \/ /\ ret = NoCall
     /\ \E data \in PlanData(layers[1].data_format), training \in BOOLEAN, seed \in PlanSeeds :
          GetRandomTransformation(1, data, training, seed)
  \/ Consume

SpecPlan == InitPlan /\ [][NextPlan]_vars

\* Applying given transformations on one layer; no operation here reads the
\* seed or the pseudo-random function, which are fixed.
InitApply ==
  /\ InitWith({MaxSeed})
  /\ image_data_format = "channels_last"
  /\ prng = [b |-> 1, c |-> 0]

NextApply ==
  \/ /\ ret = NoCall
     /\ \E images \in Images(layers[1].data_format), transformation \in Transformations :
          AugmentImages(1, images, transformation)
  \/ /\ ret = NoCall
     /\ \E masks \in Masks(layers[1].data_format), transformation \in Transformations :
          AugmentSegmentationMasks(1, masks, transformation)
  \/ /\ ret = NoCall
     /\ \E bounding_boxes \in UnbatchedBoxes, transformation \in Transformations :
          AugmentBoundingBoxes(1, bounding_boxes, transformation)
  \/ /\ ret = NoCall
     /\ \E bounding_boxes \in BatchedBoxes, transformation \in Transformations :
          AugmentBoundingBoxes(1, bounding_boxes, transformation)
  \/ /\ ret = NoCall
     /\ \E labels \in LabelSamples, transformation \in Transformations :
          AugmentLabels(1, labels, transformation)
  \/ Consume

SpecApply == InitApply /\ [][NextApply]_vars

\* The layer called on batches of images, and asked for its output shape.
NextCall ==
  \/ /\ ret = NoCall
     /\ \E images \in Images(layers[1].data_format), training \in BOOLEAN :
          Call(1, images, training)
  \/ /\ ret = NoCall
     /\ \E data \in PlanData(layers[1].data_format) :
          ComputeOutputShape(1, IF data.kind = "dict" THEN data.images ELSE data.shape)
  \/ Consume

SpecCall == InitPlan /\ [][NextCall]_vars

\* Batches of known size that the replayed planning calls are given.
ReplayData(fmt) ==
  { [kind |-> "tensor", shape |-> ShapeOf(fmt, 4, 2, h, MaxDim, 3)] : h \in {1, MaxDim} }

\* Two layers of one seed: layer 1, built with a seed, and layer 2, rebuilt from
\* its config; planning calls follow each other on either.
NextReplay ==
  \/ /\ ~layers[2].built
     /\ GetConfig(1)
  \/ FromConfig
  \/ \E i \in Ids, data \in ReplayData(layers[1].data_format), training \in BOOLEAN :
       GetRandomTransformation(i, data, training, None)

SpecReplay == InitPlan /\ [][NextReplay]_vars

\* Configs taken and rebuilt from while the global format changes and the
\* layers plan and apply; layer 1 is built with any arguments.
InitConfig ==
  /\ Init
  /\ prng = [b |-> 1, c |-> 0]

NextConfig ==
  \/ \E data_format \in Formats : SetImageDataFormat(data_format)
  \/ /\ ret = NoCall
     /\ \E i \in Ids : GetConfig(i)
  \/ FromConfig
  \/ /\ ret = NoCall
     /\ \E i \in Ids, data \in ReplayData(layers[1].data_format), training \in BOOLEAN :
          GetRandomTransformation(i, data, training, None)
  \/ /\ ret = NoCall
     /\ \E i \in Ids, masks \in Masks(layers[1].data_format) :
          AugmentImages(i, masks, <<0, 0>>)
  \/ /\ ret = NoCall
     /\ \E i \in Ids, labels \in LabelSamples :
          AugmentLabels(i, labels, <<0, 0>>)
  \/ Consume

SpecConfig == InitConfig /\ [][NextConfig]_vars

\* ------------------------------------------------------- claims on planning

\* What the last planning call was given, read off its arguments.
IsPlan == ret.op = "get_random_transformation"
PlanShape == IF ret.data.kind = "dict" THEN ret.data.images ELSE ret.data.shape
PlanFormat == layers[ret.layer].data_format
PlanHeight == PlanShape[IF PlanFormat = "channels_last" THEN Len(PlanShape) - 2 ELSE Len(PlanShape) - 1]
PlanWidth == PlanShape[IF PlanFormat = "channels_last" THEN Len(PlanShape) - 1 ELSE Len(PlanShape)]
PlanTargetHeight == layers[ret.layer].height
PlanTargetWidth == layers[ret.layer].width
PlanKnown == PlanHeight # None /\ PlanWidth # None
PlanRandom ==
  /\ IsPlan /\ PlanKnown /\ ret.training
  /\ PlanHeight > PlanTargetHeight /\ PlanWidth > PlanTargetWidth
PlanCenter ==
  /\ IsPlan /\ PlanKnown
  /\ (~ret.training \/ PlanHeight <= PlanTargetHeight \/ PlanWidth <= PlanTargetWidth)

\* The layer as it was when the last planning call began.
PlanSelf == [layers[ret.layer] EXCEPT !.generator.counter = ret.drawn]

\* C2: in training mode, with an input larger than the target in both
\* dimensions, the planned offsets lie in [0, input_height - target_height] and
\* [0, input_width - target_width], and every integer of either range is the
\* offset planned under some pseudo-random function.
C2_RandomOffsetsInRange ==
  PlanRandom =>
    /\ ret.result.kind = "ok"
    /\ ret.result.h_start \in 0..(PlanHeight - PlanTargetHeight)
    /\ ret.result.w_start \in 0..(PlanWidth - PlanTargetWidth)
    /\ \A h \in 0..(PlanHeight - PlanTargetHeight) : \E p \in PrngFamily :
         get_random_transformation(PlanSelf, ret.data, TRUE, ret.seed, p).result.h_start = h
    /\ \A w \in 0..(PlanWidth - PlanTargetWidth) : \E p \in PrngFamily :
         get_random_transformation(PlanSelf, ret.data, TRUE, ret.seed, p).result.w_start = w

\* A random plan that chose the last row of a range of three and the first column.
C2_Witness ==
  /\ PlanRandom
  /\ PlanHeight - PlanTargetHeight >= 2
  /\ ret.result.h_start = PlanHeight - PlanTargetHeight
  /\ ret.result.w_start = 0

\* clamp(x, lo, hi): x brought up to lo, then down to hi.
Clamp(x, lo, hi) == Min(Max(x, lo), hi)
\* x / y rounded towards zero, for x >= 0 and y > 0.
RoundTowardsZero(x, y) == x \div y
\* floor(x / 2)
FloorHalf(x) == x \div 2

ClaimedCropHeight == Clamp(RoundTowardsZero(PlanWidth * PlanTargetHeight, PlanTargetWidth), 1, PlanHeight)
ClaimedCropWidth == Clamp(RoundTowardsZero(PlanHeight * PlanTargetWidth, PlanTargetHeight), 1, PlanWidth)

\* C4: outside the random branch the plan is the center crop:
\* h_start = floor((input_height - crop_height) / 2) and
\* w_start = floor((input_width - crop_width) / 2), a function of the input
\* shape and the target size alone, and the generator is left where it was.
C4_CenterCropOffsets ==
  PlanCenter =>
    /\ ret.result = [kind |-> "ok",
                     h_start |-> FloorHalf(PlanHeight - ClaimedCropHeight),
                     w_start |-> FloorHalf(PlanWidth - ClaimedCropWidth)]
    /\ layers[ret.layer].generator.counter = ret.drawn

\* A center plan in training mode, for an input lower than the target, whose
\* window is not at the origin.
C4_Witness ==
  /\ PlanCenter /\ ret.training
  /\ PlanHeight < PlanTargetHeight
  /\ ret.result.w_start > 0

\* C8: the planning call raises the invalid-input error, naming the shape it
\* received, exactly when the height or the width of the input is unknown;
\* then it returns no offsets and draws nothing.
C8_UnknownSizeRaises ==
  IsPlan =>
    /\ (ret.result.kind = "ValueError") <=> (PlanHeight = None \/ PlanWidth = None)
    /\ ret.result.kind \in {"ValueError", "ok"}
    /\ ret.result.kind = "ValueError" =>
         /\ ret.result.shape = PlanShape
         /\ layers[ret.layer].generator.counter = ret.drawn

\* The call raised for an input of known height and unknown width, in training mode.
C8_Witness ==
  /\ IsPlan /\ ret.training
  /\ ret.result.kind = "ValueError"
  /\ PlanHeight # None /\ PlanHeight > PlanTargetHeight
  /\ PlanWidth = None

\* ------------------------------------------------------- claims on applying

IsCrop == ret.op \in {"augment_images", "augment_segmentation_masks"}
CropLast == layers[ret.layer].data_format = "channels_last"
CropTargetHeight == layers[ret.layer].height
CropTargetWidth == layers[ret.layer].width
SourceBatch == ret.images.shape[1]
SourceChannels == IF CropLast THEN ret.images.shape[4] ELSE ret.images.shape[2]
SourceHeight == IF CropLast THEN ret.images.shape[2] ELSE ret.images.shape[3]
SourceWidth == IF CropLast THEN ret.images.shape[3] ELSE ret.images.shape[4]
CropRow == ret.transformation[1]
CropColumn == ret.transformation[2]
WindowInside ==
  /\ CropRow + CropTargetHeight <= SourceHeight
  /\ CropColumn + CropTargetWidth <= SourceWidth

\* The position (sample b, row i, column j, channel c) in the layer's data format.
At(b, i, j, c) == IF CropLast THEN <<b, i, j, c>> ELSE <<b, c, i, j>>

\* C1: for images and for masks alike, the crop is the window of target size at
\* (h_start, w_start) of every sample: it holds, at (b, i, j, c), the value the
\* source holds at (b, h_start + i, w_start + j, c), in the compute dtype, and
\* nothing else; a window that leaves the source is an error.
C1_CropIsTheWindow ==
  IsCrop =>
    IF WindowInside
      THEN /\ ret.result.kind = "tensor"
           /\ ret.result.dtype = layers[ret.layer].compute_dtype
           /\ ret.result.shape = At(SourceBatch, CropTargetHeight, CropTargetWidth, SourceChannels)
           /\ DOMAIN ret.result.data =
                { At(b, i, j, c) : b \in 0..(SourceBatch - 1), i \in 0..(CropTargetHeight - 1),
                                   j \in 0..(CropTargetWidth - 1), c \in 0..(SourceChannels - 1) }
           /\ \A b \in 0..(SourceBatch - 1), i \in 0..(CropTargetHeight - 1),
                 j \in 0..(CropTargetWidth - 1), c \in 0..(SourceChannels - 1) :
                ret.result.data[At(b, i, j, c)] = ret.images.data[At(b, CropRow + i, CropColumn + j, c)]
      ELSE ret.result.kind = "error"

\* A batch of two channel-first masks cropped at row 1, column 0 to a window
\* higher than wide.
C1_Witness ==
  /\ ret.op = "augment_segmentation_masks"
  /\ ~CropLast
  /\ SourceBatch = 2
  /\ ret.transformation = <<1, 0>>
  /\ CropTargetHeight > CropTargetWidth
  /\ ret.result.kind = "tensor"

IsBoxes == ret.op = "augment_bounding_boxes"
BoxesBatched == Len(ret.bounding_boxes.boxes.shape) = 3

\* The boxes given and returned, as sequences of samples of sequences of boxes.
BoxesIn == IF BoxesBatched THEN ret.bounding_boxes.boxes.rows ELSE <<ret.bounding_boxes.boxes.rows>>
BoxesOut == IF BoxesBatched THEN ret.result.boxes.rows ELSE <<ret.result.boxes.rows>>

MovedAsClaimed(before, after, h_start, w_start) ==
  /\ Top(after) = Max(Top(before) - h_start, 0)
  /\ Bottom(after) = Max(Bottom(before) - h_start, 0)
  /\ Left(after) = Max(Left(before) - w_start, 0)
  /\ Right(after) = Max(Right(before) - w_start, 0)

\* C5: augment_bounding_boxes takes h_start from the top and the bottom of
\* every box and w_start from its left and its right, and raises negative
\* results to 0; batched or not, the boxes keep their number and order and the
\* labels come back unchanged.
C5_BoxesMoved ==
  IsBoxes =>
    /\ ret.result.labels = ret.bounding_boxes.labels
    /\ ret.result.boxes.shape = ret.bounding_boxes.boxes.shape
    /\ Len(BoxesOut) = Len(BoxesIn)
    /\ \A b \in 1..Len(BoxesIn) :
         /\ Len(BoxesOut[b]) = Len(BoxesIn[b])
         /\ \A n \in 1..Len(BoxesIn[b]) :
              MovedAsClaimed(BoxesIn[b][n], BoxesOut[b][n], ret.transformation[1], ret.transformation[2])

\* C7: after augment_bounding_boxes the top and bottom of every box lie in
\* [0, target_height] and its left and right in [0, target_width].
C7_BoxesInsideCrop ==
  IsBoxes =>
    \A b \in 1..Len(BoxesOut) : \A n \in 1..Len(BoxesOut[b]) :
      /\ Top(BoxesOut[b][n]) \in 0..layers[ret.layer].height
      /\ Bottom(BoxesOut[b][n]) \in 0..layers[ret.layer].height
      /\ Left(BoxesOut[b][n]) \in 0..layers[ret.layer].width
      /\ Right(BoxesOut[b][n]) \in 0..layers[ret.layer].width

\* -------------------------------------------------- claims on the layer call

IsCall == ret.op = "call"

\* C6: the tensor the layer returns has the shape compute_output_shape reports
\* for the shape of its input, also for an input smaller than the target.
C6_OutputShape ==
  IsCall =>
    /\ ret.result.kind = "tensor"
    /\ ret.result.shape = compute_output_shape(layers[ret.layer], ret.images.shape)

\* C10: for an input at least as large as the target in both dimensions, in
\* either mode, the planned window of target size lies inside the source, so
\* the slice succeeds; for an input of exactly the target size the plan is (0, 0).
C10_WindowInsideSource ==
  (IsCall /\ SourceHeight >= CropTargetHeight /\ SourceWidth >= CropTargetWidth) =>
    /\ ret.transformation.kind = "ok"
    /\ ret.transformation.h_start >= 0
    /\ ret.transformation.w_start >= 0
    /\ ret.transformation.h_start + CropTargetHeight <= SourceHeight
    /\ ret.transformation.w_start + CropTargetWidth <= SourceWidth
    /\ ret.result.kind = "tensor"
    /\ (SourceHeight = CropTargetHeight /\ SourceWidth = CropTargetWidth) =>
         (ret.transformation.h_start = 0 /\ ret.transformation.w_start = 0)

\* An inference call on an input larger than the target whose centered window
\* starts below the first row.
C10_Witness ==
  /\ IsCall /\ ~ret.training
  /\ SourceHeight > CropTargetHeight /\ SourceWidth > CropTargetWidth
  /\ ret.transformation.h_start > 0
  /\ ret.result.kind = "tensor"

\* -------------------------------------------------------- claims on replay

SameSettings(i, j) ==
  /\ layers[i].height = layers[j].height
  /\ layers[i].width = layers[j].width
  /\ layers[i].data_format = layers[j].data_format
  /\ layers[i].seed = layers[j].seed

SamePlanArguments ==
  /\ IsPlan
  /\ ret'.op = "get_random_transformation"
  /\ ret'.data = ret.data
  /\ ret'.training = ret.training
  /\ ret'.seed = ret.seed

\* C3 as stated: a planning call that repeats the arguments of the call before
\* it on the same layer returns the same pair.
C3_RepeatedCallsAgree ==
  [][(SamePlanArguments /\ ret'.layer = ret.layer) => ret'.result = ret.result]_vars

\* C3 as amended: a planning call that repeats the arguments of the call before
\* it, on the same layer or on one of the same seed and settings, returns the
\* same pair if its generator stands where the generator of that call stood:
\* both have handed out equally many values.
C3_ReplayedCallsAgree ==
  [][(/\ SamePlanArguments
      /\ SameSettings(ret.layer, ret'.layer)
      /\ ret'.drawn = ret.drawn)
     => ret'.result = ret.result]_vars

\* Layer 2 has planned twice in the random branch from its generator, after
\* layer 1 planned once.
C3_Witness ==
  /\ PlanRandom
  /\ ret.layer = 2
  /\ ret.drawn = 2
  /\ layers[1].generator.counter = 2
  /\ PlanHeight - PlanTargetHeight >= 2

\* ------------------------------------------------------ claims on configs

Settings(layer) == <<layer.height, layer.width, layer.data_format, layer.seed>>

\* C9: a layer rebuilt from get_config() has the height, width, data_format and
\* seed of the layer the config was taken from, whatever the constructor was
\* given and whatever the global format has become; and no operation changes
\* these four settings of a layer.
C9_ConfigRoundTrip ==
  /\ [](layers[2].built => Settings(layers[2]) = Settings(layers[1]))
  /\ [][\A i \in Ids : layers[i].built => Settings(layers'[i]) = Settings(layers[i])]_vars

\* Layer 2 was just rebuilt from the config of a layer 1 that was built without
\* a seed and whose data format is not the global one.
C9_Witness ==
  /\ ret.op = "from_config"
  /\ layers[2].built
  /\ layers[1].generator.seed # layers[1].seed
  /\ layers[1].data_format # image_data_format
  /\ layers[1].generator.counter > 0

====
